---- MODULE Spec2Model ----
(***************************************************************************)
(* Model of the device relay in backend/api/v1/devices.py: the single      *)
(* module-level controller connection unity_ws, the device_states store    *)
(* (in-memory dict or Redis), the websocket receive loop and the REST      *)
(* command endpoints. Text is modelled as sequences of one-character       *)
(* strings so that lower(), split(":"), int() and str() are computed.      *)
(***************************************************************************)
EXTENDS Integers, Sequences, FiniteSets, TLC

(***************************************************************************)
(* Bounds of the model.                                                    *)
(***************************************************************************)
MaxChan == 2      \* websocket connections the controller side may open
MaxReq == 2       \* REST command requests issued in one behaviour
MaxInbound == 1   \* text frames received from the controller side

Channels == 1..MaxChan
Requests == 1..MaxReq
None == 0         \* unity_ws = None

(***************************************************************************)
(* Text: Python str values as sequences of characters.                     *)
(***************************************************************************)
on == <<"o", "n">>
off == <<"o", "f", "f">>
ON == <<"O", "N">>
dim == <<"d", "i", "m">>
empty == <<>>
lamp == <<"l", "a", "m", "p">>
tv == <<"t", "v">>
radio == <<"r", "a", "d", "i", "o">>
kitchenlight == <<"k", "i", "t", "c", "h", "e", "n", "l", "i", "g", "h", "t">>
status == <<"s", "t", "a", "t", "u", "s">>
volume == <<"v", "o", "l", "u", "m", "e">>

Upper == <<"A", "B", "C", "D", "E", "F", "G", "H", "I", "J", "K", "L", "M",
           "N", "O", "P", "Q", "R", "S", "T", "U", "V", "W", "X", "Y", "Z">>
LowerAlpha == <<"a", "b", "c", "d", "e", "f", "g", "h", "i", "j", "k", "l", "m",
                "n", "o", "p", "q", "r", "s", "t", "u", "v", "w", "x", "y", "z">>
Digits == <<"0", "1", "2", "3", "4", "5", "6", "7", "8", "9">>

\* str.lower() on one character
LowerChar(c) ==
    IF \E i \in 1..Len(Upper) : Upper[i] = c
    THEN LowerAlpha[CHOOSE i \in 1..Len(Upper) : Upper[i] = c]
    ELSE c

\* str.lower()
Lower(s) == [i \in 1..Len(s) |-> LowerChar(s[i])]

\* f"{a}:{b}:{c}"
Join3(a, b, c) == a \o <<":">> \o b \o <<":">> \o c

\* f"{device}_{prop}"
KeyOf(device, prop) == device \o <<"_">> \o prop

RECURSIVE SplitFrom(_, _, _)
SplitFrom(s, i, cur) ==
    IF i > Len(s) THEN <<cur>>
    ELSE IF s[i] = ":" THEN <<cur>> \o SplitFrom(s, i + 1, <<>>)
    ELSE SplitFrom(s, i + 1, Append(cur, s[i]))

\* data.split(":")
Split(s) == SplitFrom(s, 1, <<>>)

IsDigit(c) == \E i \in 1..Len(Digits) : Digits[i] = c
DigitVal(c) == (CHOOSE i \in 1..Len(Digits) : Digits[i] = c) - 1

RECURSIVE StripLeft(_)
StripLeft(s) == IF Len(s) > 0 /\ s[1] = " " THEN StripLeft(Tail(s)) ELSE s

RECURSIVE StripRight(_)
StripRight(s) ==
    IF Len(s) > 0 /\ s[Len(s)] = " " THEN StripRight(SubSeq(s, 1, Len(s) - 1)) ELSE s

RECURSIVE DigitsVal(_)
DigitsVal(s) ==
    IF Len(s) = 0 THEN 0
    ELSE 10 * DigitsVal(SubSeq(s, 1, Len(s) - 1)) + DigitVal(s[Len(s)])

\* int(s) for a str s: surrounding blanks are stripped, one optional sign,
\* then one or more decimal digits; anything else raises ValueError (ok = FALSE).
ParseInt(s) ==
    LET t == StripRight(StripLeft(s))
        signed == Len(t) > 0 /\ t[1] \in {"+", "-"}
        body == IF signed THEN Tail(t) ELSE t
        good == Len(body) > 0 /\ \A i \in 1..Len(body) : IsDigit(body[i])
    IN  IF good
        THEN [ok |-> TRUE,
              val |-> IF signed /\ t[1] = "-" THEN 0 - DigitsVal(body) ELSE DigitsVal(body)]
        ELSE [ok |-> FALSE, val |-> 0]

RECURSIVE NatToStr(_)
NatToStr(n) ==
    IF n < 10 THEN <<Digits[n + 1]>>
    ELSE NatToStr(n \div 10) \o <<Digits[(n % 10) + 1]>>

\* str(n) for an int n
IntToStr(n) == IF n < 0 THEN <<"-">> \o NatToStr(0 - n) ELSE NatToStr(n)

(***************************************************************************)
(* VolumeCommand.change is a float. The model carries it as a whole number *)
(* of halves h (the float h/2), which is exact in binary floating point.   *)
(***************************************************************************)
\* mutant: floor (math.floor, //) in place of int()
FloorHalf(h) == h \div 2

\* int(command.change): truncation toward zero
Truncate(h) == IF h >= 0 THEN h \div 2 ELSE 0 - ((0 - h) \div 2)

\* f"{command.change}": repr of the float, always with a fractional part
FloatToStr(h) ==
    LET a == IF h < 0 THEN 0 - h ELSE h
    IN  (IF h < 0 THEN <<"-">> ELSE <<>>) \o NatToStr(a \div 2)
            \o <<".">> \o (IF a % 2 = 0 THEN <<"0">> ELSE <<"5">>)

(***************************************************************************)
(* Inputs drawn by the environment.                                        *)
(***************************************************************************)
\* DeviceCommand.state: any str passes validation, the empty one too
States == {on, off, ON, dim, empty}

\* VolumeCommand.change in halves: -50.0, -0.5, 1.5, 50.0
Changes == {0 - 100, 0 - 1, 3, 100}

\* Text frames the controller side may send
InboundTexts ==
    { Join3(lamp, status, off),
      Join3(<<"T", "V">>, <<"V", "o", "l", "u", "m", "e">>, <<"9", "5">>),
      Join3(tv, volume, <<"1", "5", "0">>),
      Join3(tv, <<>>, <<"1", "0">>),
      tv \o <<":">> \o volume,
      Join3(tv, volume, <<"1", "0">>) \o <<":">> \o <<"e", "x", "t", "r", "a">> }

VARIABLES
    USE_REDIS,       \* backend flag, fixed at import time
    device_states,   \* the store: key -> value (dict, or the Redis database)
    unity_ws,        \* the registered websocket, or None
    chan,            \* per websocket: "new", "open", "closing" (peer gone), "closed"
    reqs,            \* per command request: where its coroutine stands
    nreq,            \* command requests started so far
    ninb,            \* text frames received so far
    wire,            \* text frames written to websockets, in order
    regs,            \* websockets in the order they were registered
    last             \* the step taken last, with the response it returned

vars == <<USE_REDIS, device_states, unity_ws, chan, reqs, nreq, ninb, wire, regs, last>>

NoResult == [kind |-> "none", command |-> <<>>, new_volume |-> 0, flag |-> FALSE]
\* {"error": "Unity client not connected"}
NotConnected == [kind |-> "error", command |-> <<>>, new_volume |-> 0, flag |-> FALSE]
\* {"message": "<Device> is already <desired_state>."}
AlreadyIn(desired) == [kind |-> "already", command |-> desired, new_volume |-> 0, flag |-> FALSE]
\* {"message": "Command sent", "command": message}
CommandSent(message) == [kind |-> "sent", command |-> message, new_volume |-> 0, flag |-> FALSE]
\* {"message": "... volume command sent", "command": message, "new_volume": new_vol}
VolumeSent(message, vol) == [kind |-> "volume", command |-> message, new_volume |-> vol, flag |-> FALSE]
\* {"<device>": state == "on"}
StatusIs(b) == [kind |-> "status", command |-> <<>>, new_volume |-> 0, flag |-> b]
\* {"<device>_volume": vol_int}
VolumeIs(vol) == [kind |-> "qvolume", command |-> <<>>, new_volume |-> vol, flag |-> FALSE]
\* an exception left the endpoint coroutine
Raised == [kind |-> "exception", command |-> <<>>, new_volume |-> 0, flag |-> FALSE]

\* an exception of the Redis client left the endpoint coroutine
StoreRaised == [kind |-> "storeerror", command |-> <<>>, new_volume |-> 0, flag |-> FALSE]

Event(act, r, ws, dev, st, ch, res) ==
    [act |-> act, req |-> r, ws |-> ws, dev |-> dev, state |-> st, change |-> ch, result |-> res]

IdleReq == [pc |-> "idle", op |-> "none", dev |-> <<>>, state |-> <<>>, change |-> 0,
            ws |-> None, message |-> <<>>]
DoneReq == [IdleReq EXCEPT !.pc = "done"]

\* device_states as the module is imported with USE_REDIS false
InitialStates ==
    [k \in {KeyOf(lamp, status), KeyOf(tv, status), KeyOf(radio, status),
            KeyOf(kitchenlight, status), KeyOf(tv, volume), KeyOf(radio, volume)} |->
        IF k = KeyOf(lamp, status) \/ k = KeyOf(kitchenlight, status) THEN on
        ELSE IF k = KeyOf(tv, volume) THEN <<"5", "0">>
        ELSE IF k = KeyOf(radio, volume) THEN <<"6">>
        ELSE off]

\* a Redis database with none of the keys set
EmptyStore == [k \in {} |-> <<>>]

Init ==
    /\ USE_REDIS \in BOOLEAN
    /\ device_states = IF USE_REDIS THEN EmptyStore ELSE InitialStates
    /\ unity_ws = None
    /\ chan = [c \in Channels |-> "new"]
    /\ reqs = [r \in Requests |-> IdleReq]
    /\ nreq = 0
    /\ ninb = 0
    /\ wire = <<>>
    /\ regs = <<>>
    /\ last = Event("init", 0, None, <<>>, <<>>, 0, NoResult)

(***************************************************************************)
(* Store helpers.                                                          *)
(***************************************************************************)
get_device_status(key) ==
    IF USE_REDIS
    THEN IF key \in DOMAIN device_states /\ device_states[key] # <<>>
         THEN device_states[key] ELSE off
    ELSE IF key \in DOMAIN device_states THEN device_states[key] ELSE off

set_device_status(key, state) ==
    device_states' = [k \in DOMAIN device_states \cup {key} |->
                        IF k = key THEN state ELSE device_states[k]]

(***************************************************************************)
(* Websocket endpoint.                                                     *)
(***************************************************************************)
\* mutant: a second client is turned away, the first stays registered
RegisterIfNone(c) == unity_ws' = IF unity_ws = None THEN c ELSE unity_ws

\* accept() and "unity_ws = websocket"
Register(c) == unity_ws' = c

\* "except WebSocketDisconnect: unity_ws = None"
ClearOnDisconnect(c) == unity_ws' = None

\* websocket_endpoint up to the first receive_text()
Accept(c) ==
    /\ chan[c] = "new"
    /\ c = Len(regs) + 1
    /\ Register(c)
    /\ chan' = [chan EXCEPT ![c] = "open"]
    /\ regs' = Append(regs, c)
    /\ last' = Event("accept", 0, c, <<>>, <<>>, 0, NoResult)
    /\ UNCHANGED <<USE_REDIS, device_states, reqs, nreq, ninb, wire>>

\* the parts of one received frame applied to the store
ApplyInbound(data) ==
    LET parts == Split(data)
    IN  IF Len(parts) = 3
        THEN set_device_status(KeyOf(Lower(parts[1]), Lower(parts[2])), Lower(parts[3]))
        ELSE UNCHANGED device_states

\* mutant: frames of a websocket that is no longer the registered one are
\* dropped
ReceiveIfRegistered(c, data) ==
    /\ chan[c] = "open"
    /\ ninb < MaxInbound
    /\ ninb' = ninb + 1
    /\ IF c = unity_ws THEN ApplyInbound(data) ELSE UNCHANGED device_states
    /\ last' = Event("receive", 0, c, <<>>, data, 0, NoResult)
    /\ UNCHANGED <<USE_REDIS, unity_ws, chan, reqs, nreq, wire, regs>>

\* one turn of the receive loop: receive_text() returned data
Receive(c, data) ==
    /\ chan[c] = "open"
    /\ ninb < MaxInbound
    /\ ninb' = ninb + 1
    /\ ApplyInbound(data)
    /\ last' = Event("receive", 0, c, <<>>, data, 0, NoResult)
    /\ UNCHANGED <<USE_REDIS, unity_ws, chan, reqs, nreq, wire, regs>>

\* the controller side goes away; the receive loop has not yet seen it
PeerClose(c) ==
    /\ chan[c] = "open"
    /\ chan' = [chan EXCEPT ![c] = "closing"]
    /\ last' = Event("peerclose", 0, c, <<>>, <<>>, 0, NoResult)
    /\ UNCHANGED <<USE_REDIS, device_states, unity_ws, reqs, nreq, ninb, wire, regs>>

\* receive_text() raises WebSocketDisconnect: the except branch runs
ReceiveDisconnect(c) ==
    /\ chan[c] = "closing"
    /\ ClearOnDisconnect(c)
    /\ chan' = [chan EXCEPT ![c] = "closed"]
    /\ last' = Event("disconnect", 0, c, <<>>, <<>>, 0, NoResult)
    /\ UNCHANGED <<USE_REDIS, device_states, reqs, nreq, ninb, wire, regs>>

\* receive_text() raises anything else (a binary frame, a transport error):
\* no except branch matches, the exception leaves websocket_endpoint
ReceiveError(c) ==
    /\ chan[c] \in {"open", "closing"}
    /\ chan' = [chan EXCEPT ![c] = "closed"]
    /\ last' = Event("recverror", 0, c, <<>>, <<>>, 0, Raised)
    /\ UNCHANGED <<USE_REDIS, device_states, unity_ws, reqs, nreq, ninb, wire, regs>>

\* websocket_endpoint for the websockets chs receiving frames out of texts
websocket_endpoint(chs, texts) ==
    \/ \E c \in chs : Accept(c)
    \/ \E c \in chs : \E data \in texts : Receive(c, data)
    \/ \E c \in chs : ReceiveDisconnect(c)
    \/ \E c \in chs : ReceiveError(c)

(***************************************************************************)
(* Command endpoints. A coroutine runs without interruption up to the      *)
(* await on send_text; the frame is handed to the websocket in the call    *)
(* and the coroutine resumes in a later step.                              *)
(***************************************************************************)
\* mutant: the test for None is missing
NoClientUnchecked == FALSE

\* "if unity_ws is None"
NoClient == unity_ws = None

\* send_text on a websocket: the frame is written, or the call raises
\* (on None the attribute lookup raises)
SendOutcomes(ws) ==
    IF ws = None THEN {"raise"}
    ELSE IF chan[ws] = "open" THEN {"written"}
    ELSE IF chan[ws] = "closing" THEN {"written", "raise"}
    ELSE {"raise"}

\* "await unity_ws.send_text(message)" as called by request r
SendText(r, op, dev, st, ch, message) ==
    \E outcome \in SendOutcomes(unity_ws) :
        IF outcome = "written"
        THEN /\ wire' = Append(wire, [ws |-> unity_ws, text |-> message])
             /\ reqs' = [reqs EXCEPT ![r] = [pc |-> "sending", op |-> op, dev |-> dev,
                                             state |-> st, change |-> ch,
                                             ws |-> unity_ws, message |-> message]]
             /\ last' = Event(op, r, unity_ws, dev, st, ch, NoResult)
        ELSE /\ wire' = wire
             /\ reqs' = [reqs EXCEPT ![r] = DoneReq]
             /\ last' = Event(op, r, unity_ws, dev, st, ch, Raised)

\* the response of a request that returns without awaiting
Return(r, op, dev, st, ch, res) ==
    /\ wire' = wire
    /\ reqs' = [reqs EXCEPT ![r] = DoneReq]
    /\ last' = Event(op, r, unity_ws, dev, st, ch, res)

\* "desired_state = command.state.lower()"
DesiredState(st) == Lower(st)

\* mutant: the two-part frame of api/v1/lamp.py, f"lamp:{command.state}"
StatusMessageTwoPart(dev, st) == dev \o <<":">> \o st

\* f"<device>:status:{command.state}"
StatusMessage(dev, st) == Join3(dev, status, st)

\* toggle_<device> from the call to the await
ToggleCall(r, dev, st) ==
    /\ nreq < MaxReq
    /\ r = nreq + 1
    /\ nreq' = nreq + 1
    /\ LET desired_state == DesiredState(st)
           current_state == get_device_status(KeyOf(dev, status))
           message == StatusMessage(dev, st)
       IN  IF NoClient
           THEN Return(r, "toggle", dev, st, 0, NotConnected)
           ELSE IF current_state = desired_state
           THEN Return(r, "toggle", dev, st, 0, AlreadyIn(desired_state))
           ELSE SendText(r, "toggle", dev, st, 0, message)
    /\ UNCHANGED <<USE_REDIS, device_states, unity_ws, chan, ninb, regs>>

\* toggle_<device> after send_text returned
ToggleResume(r, dev) ==
    /\ reqs[r].pc = "sending"
    /\ reqs[r].op = "toggle"
    /\ reqs[r].dev = dev
    /\ set_device_status(KeyOf(dev, status), DesiredState(reqs[r].state))
    /\ reqs' = [reqs EXCEPT ![r] = DoneReq]
    /\ last' = Event("toggled", r, reqs[r].ws, dev, reqs[r].state, 0,
                     CommandSent(reqs[r].message))
    /\ UNCHANGED <<USE_REDIS, unity_ws, chan, nreq, ninb, wire, regs>>

\* the endpoints, called with command.state out of sts
toggle_lamp(sts) ==
    \/ \E r \in Requests : \E st \in sts : ToggleCall(r, lamp, st)
    \/ \E r \in Requests : ToggleResume(r, lamp)

toggle_tv(sts) ==
    \/ \E r \in Requests : \E st \in sts : ToggleCall(r, tv, st)
    \/ \E r \in Requests : ToggleResume(r, tv)

toggle_radio(sts) ==
    \/ \E r \in Requests : \E st \in sts : ToggleCall(r, radio, st)
    \/ \E r \in Requests : ToggleResume(r, radio)

toggle_kitchen_light(sts) ==
    \/ \E r \in Requests : \E st \in sts : ToggleCall(r, kitchenlight, st)
    \/ \E r \in Requests : ToggleResume(r, kitchenlight)

\* "except: current_vol = 6" / "vol_int = 6" of the radio endpoints
RadioDefault == 6

\* mutant: the tv endpoints fall back to the radio's default
TvDefaultAsRadio == RadioDefault

\* "except: current_vol = 50" / "vol_int = 50" of the tv endpoints
TvDefault == 50

\* max(0, min(100, v))
Clamp(v) == IF v > 100 THEN 100 ELSE IF v < 0 THEN 0 ELSE v

\* mutant: the volume is not read back from the store
CurrentVolumeNotRead(dev, default) == default

\* "try: int(get_device_status(key)) except: <default>"
CurrentVolume(dev, default) ==
    LET parsed == ParseInt(get_device_status(KeyOf(dev, volume)))
    IN  IF parsed.ok THEN parsed.val ELSE default

\* f"<device>:volume:{command.change}"
VolumeMessage(dev, ch) == Join3(dev, volume, FloatToStr(ch))

\* "new_vol = max(0, min(100, current_vol + int(command.change)))"
NewVolume(current_vol, ch) == Clamp(current_vol + Truncate(ch))

\* change_<device>_volume from the call to the await
VolumeCall(r, dev, ch) ==
    /\ nreq < MaxReq
    /\ r = nreq + 1
    /\ nreq' = nreq + 1
    /\ IF NoClient
       THEN Return(r, "volume", dev, <<>>, ch, NotConnected)
       ELSE SendText(r, "volume", dev, <<>>, ch, VolumeMessage(dev, ch))
    /\ UNCHANGED <<USE_REDIS, device_states, unity_ws, chan, ninb, regs>>

\* change_<device>_volume after send_text returned
VolumeResume(r, dev, default) ==
    /\ reqs[r].pc = "sending"
    /\ reqs[r].op = "volume"
    /\ reqs[r].dev = dev
    /\ LET new_vol == NewVolume(CurrentVolume(dev, default), reqs[r].change)
       IN  /\ set_device_status(KeyOf(dev, volume), IntToStr(new_vol))
           /\ last' = Event("volumed", r, reqs[r].ws, dev, <<>>, reqs[r].change,
                            VolumeSent(reqs[r].message, new_vol))
    /\ reqs' = [reqs EXCEPT ![r] = DoneReq]
    /\ UNCHANGED <<USE_REDIS, unity_ws, chan, nreq, ninb, wire, regs>>

\* the endpoints, called with command.change out of chgs
change_tv_volume(chgs) ==
    \/ \E r \in Requests : \E ch \in chgs : VolumeCall(r, tv, ch)
    \/ \E r \in Requests : VolumeResume(r, tv, TvDefault)

change_radio_volume(chgs) ==
    \/ \E r \in Requests : \E ch \in chgs : VolumeCall(r, radio, ch)
    \/ \E r \in Requests : VolumeResume(r, radio, RadioDefault)

\* the awaited send_text raises in a suspended request: the exception leaves
\* the endpoint, nothing after the await runs
SendRaises(r) ==
    /\ reqs[r].pc = "sending"
    /\ chan[reqs[r].ws] # "open"
    /\ reqs' = [reqs EXCEPT ![r] = DoneReq]
    /\ last' = Event("sendraised", r, reqs[r].ws, reqs[r].dev, reqs[r].state,
                     reqs[r].change, Raised)
    /\ UNCHANGED <<USE_REDIS, device_states, unity_ws, chan, nreq, ninb, wire, regs>>

(***************************************************************************)
(* Query endpoints.                                                        *)
(***************************************************************************)
GetStatus(dev) ==
    /\ last' = Event("status", 0, None, dev, <<>>, 0,
                     StatusIs(get_device_status(KeyOf(dev, status)) = on))
    /\ UNCHANGED <<USE_REDIS, device_states, unity_ws, chan, reqs, nreq, ninb, wire, regs>>

get_lamp_status == GetStatus(lamp)
get_tv_status == GetStatus(tv)
get_radio_status == GetStatus(radio)
get_kitchen_light_status == GetStatus(kitchenlight)

\* mutant: the value returned is written back to the store
GetVolumeWriteBack(dev, default) ==
    /\ last' = Event("qvolume", 0, None, dev, <<>>, 0, VolumeIs(CurrentVolume(dev, default)))
    /\ set_device_status(KeyOf(dev, volume), IntToStr(CurrentVolume(dev, default)))
    /\ UNCHANGED <<USE_REDIS, unity_ws, chan, reqs, nreq, ninb, wire, regs>>

\* get_<device>_volume
GetVolume(dev, default) ==
    /\ last' = Event("qvolume", 0, None, dev, <<>>, 0, VolumeIs(CurrentVolume(dev, default)))
    /\ UNCHANGED <<USE_REDIS, device_states, unity_ws, chan, reqs, nreq, ninb, wire, regs>>

get_tv_volume == GetVolume(tv, TvDefault)
get_radio_volume == GetVolume(radio, RadioDefault)

(***************************************************************************)
(* Store failures. The dict never fails; on Redis every r.get and r.set    *)
(* may raise (server unreachable, timeout). get_device_status and          *)
(* set_device_status catch nothing, so the exception reaches their caller. *)
(***************************************************************************)
\* "r.get(key)" / "r.set(key, state)" can raise
StoreCanFail == USE_REDIS

\* toggle_<device>: get_device_status raises before anything is sent
ToggleReadFails(r, dev, st) ==
    /\ StoreCanFail
    /\ ~NoClient
    /\ nreq < MaxReq
    /\ r = nreq + 1
    /\ nreq' = nreq + 1
    /\ Return(r, "toggle", dev, st, 0, StoreRaised)
    /\ UNCHANGED <<USE_REDIS, device_states, unity_ws, chan, ninb, regs>>

\* toggle_<device>: the frame was sent, set_device_status raises
ToggleWriteFails(r, dev) ==
    /\ StoreCanFail
    /\ reqs[r].pc = "sending"
    /\ reqs[r].op = "toggle"
    /\ reqs[r].dev = dev
    /\ reqs' = [reqs EXCEPT ![r] = DoneReq]
    /\ last' = Event("toggled", r, reqs[r].ws, dev, reqs[r].state, 0, StoreRaised)
    /\ UNCHANGED <<USE_REDIS, device_states, unity_ws, chan, nreq, ninb, wire, regs>>

\* change_<device>_volume: get_device_status raises inside the try, the
\* bare except puts the default in its place, the write goes through
VolumeReadFails(r, dev, default) ==
    /\ StoreCanFail
    /\ reqs[r].pc = "sending"
    /\ reqs[r].op = "volume"
    /\ reqs[r].dev = dev
    /\ LET new_vol == NewVolume(default, reqs[r].change)
       IN  /\ set_device_status(KeyOf(dev, volume), IntToStr(new_vol))
           /\ last' = Event("volumed", r, reqs[r].ws, dev, <<>>, reqs[r].change,
                            VolumeSent(reqs[r].message, new_vol))
    /\ reqs' = [reqs EXCEPT ![r] = DoneReq]
    /\ UNCHANGED <<USE_REDIS, unity_ws, chan, nreq, ninb, wire, regs>>

\* change_<device>_volume: set_device_status raises, outside the try
VolumeWriteFails(r, dev) ==
    /\ StoreCanFail
    /\ reqs[r].pc = "sending"
    /\ reqs[r].op = "volume"
    /\ reqs[r].dev = dev
    /\ reqs' = [reqs EXCEPT ![r] = DoneReq]
    /\ last' = Event("volumed", r, reqs[r].ws, dev, <<>>, reqs[r].change, StoreRaised)
    /\ UNCHANGED <<USE_REDIS, device_states, unity_ws, chan, nreq, ninb, wire, regs>>

\* get_<device>_status: get_device_status raises
GetStatusFails(dev) ==
    /\ StoreCanFail
    /\ last' = Event("status", 0, None, dev, <<>>, 0, StoreRaised)
    /\ UNCHANGED <<USE_REDIS, device_states, unity_ws, chan, reqs, nreq, ninb, wire, regs>>

\* get_<device>_volume: get_device_status raises, before the try
GetVolumeFails(dev) ==
    /\ StoreCanFail
    /\ last' = Event("qvolume", 0, None, dev, <<>>, 0, StoreRaised)
    /\ UNCHANGED <<USE_REDIS, device_states, unity_ws, chan, reqs, nreq, ninb, wire, regs>>

\* the receive loop: set_device_status raises on a three-part frame; the
\* exception is no WebSocketDisconnect and leaves websocket_endpoint
ReceiveWriteFails(c, data) ==
    /\ StoreCanFail
    /\ chan[c] = "open"
    /\ ninb < MaxInbound
    /\ Len(Split(data)) = 3
    /\ ninb' = ninb + 1
    /\ chan' = [chan EXCEPT ![c] = "closed"]
    /\ last' = Event("receive", 0, c, <<>>, data, 0, StoreRaised)
    /\ UNCHANGED <<USE_REDIS, device_states, unity_ws, reqs, nreq, wire, regs>>

\* every place where the store's exception can surface
StoreFailures(chs, texts, sts) ==
    \/ \E r \in Requests : \E dev \in {lamp, tv, radio, kitchenlight} :
            \E st \in sts : ToggleReadFails(r, dev, st)
    \/ \E r \in Requests : \E dev \in {lamp, tv, radio, kitchenlight} :
            ToggleWriteFails(r, dev)
    \/ \E r \in Requests : VolumeReadFails(r, tv, TvDefault)
    \/ \E r \in Requests : VolumeReadFails(r, radio, RadioDefault)
    \/ \E r \in Requests : \E dev \in {tv, radio} : VolumeWriteFails(r, dev)
    \/ \E dev \in {lamp, tv, radio, kitchenlight} : GetStatusFails(dev)
    \/ \E dev \in {tv, radio} : GetVolumeFails(dev)
    \/ \E c \in chs : \E data \in texts : ReceiveWriteFails(c, data)

(***************************************************************************)
(* Specifications. Next is the whole program over all the inputs above;    *)
(* the others run the same actions over part of the inputs.                *)
(***************************************************************************)
Lifecycle(chs, texts) ==
    \/ websocket_endpoint(chs, texts)
    \/ \E c \in chs : PeerClose(c)

StatusCommands(sts) ==
    \/ toggle_lamp(sts)
    \/ toggle_tv(sts)
    \/ toggle_radio(sts)
    \/ toggle_kitchen_light(sts)

VolumeCommands(chgs) ==
    \/ change_tv_volume(chgs)
    \/ change_radio_volume(chgs)

StatusQueries ==
    \/ get_lamp_status
    \/ get_tv_status
    \/ get_radio_status
    \/ get_kitchen_light_status

VolumeQueries ==
    \/ get_tv_volume
    \/ get_radio_volume

Next ==
    \/ Lifecycle(Channels, InboundTexts)
    \/ StatusCommands(States)
    \/ VolumeCommands(Changes)
    \/ \E r \in Requests : SendRaises(r)
    \/ StatusQueries
    \/ VolumeQueries
    \/ StoreFailures(Channels, InboundTexts, States)

Spec == Init /\ [][Next]_vars

\* Connection handling: every websocket, every command endpoint, few arguments
NextLink ==
    \/ Lifecycle(Channels, {Join3(lamp, status, off)})
    \/ StatusCommands({on, off})
    \/ VolumeCommands({100})
    \/ \E r \in Requests : SendRaises(r)

SpecLink == Init /\ [][NextLink]_vars

\* Status handling: one websocket, every status argument
NextStatus ==
    \/ Lifecycle({1}, {Join3(lamp, status, off), Join3(tv, <<>>, <<"1", "0">>)})
    \/ StatusCommands(States)
    \/ \E r \in Requests : SendRaises(r)
    \/ StatusQueries

SpecStatus == Init /\ [][NextStatus]_vars

\* Volume handling: one websocket, every volume argument
NextVolume ==
    \/ Lifecycle({1}, InboundTexts)
    \/ VolumeCommands(Changes)
    \/ \E r \in Requests : SendRaises(r)
    \/ VolumeQueries

SpecVolume == Init /\ [][NextVolume]_vars

\* frames that leave a volume key with text that is no integer
QueryTexts == {Join3(tv, volume, dim), Join3(radio, volume, FloatToStr(3)),
               Join3(lamp, status, on)}

\* Query handling: one websocket, every endpoint, few arguments
NextQuery ==
    \/ Lifecycle({1}, QueryTexts)
    \/ StatusCommands({on, off})
    \/ VolumeCommands({3})
    \/ \E r \in Requests : SendRaises(r)
    \/ StatusQueries
    \/ VolumeQueries

SpecQuery == Init /\ [][NextQuery]_vars

\* Store handling: one websocket, every endpoint, few arguments, the
\* Redis client failing at any call
NextStore ==
    \/ Lifecycle({1}, {Join3(lamp, status, off)})
    \/ StatusCommands({on, off})
    \/ VolumeCommands({3})
    \/ \E r \in Requests : SendRaises(r)
    \/ StatusQueries
    \/ VolumeQueries
    \/ StoreFailures({1}, {Join3(lamp, status, off)}, {on, off})

SpecStore == Init /\ [][NextStore]_vars

(***************************************************************************)
(* Properties. A step is recognised by the event it leaves in last'.       *)
(***************************************************************************)
CommandCalls == {"toggle", "volume"}
CommandSteps == {"toggle", "volume", "toggled", "volumed", "sendraised"}
StatusKeys == {KeyOf(lamp, status), KeyOf(tv, status), KeyOf(radio, status),
               KeyOf(kitchenlight, status)}
VolumeKeys == {KeyOf(tv, volume), KeyOf(radio, volume)}

\* C1: when a websocket that is no longer the registered one gets its
\* disconnect (another one registered after it), the registry keeps the
\* handle it holds: the stale clear is a no-op.
C1_StaleClearIsNoOp ==
    [][(last'.act = "disconnect" /\ unity_ws # None /\ unity_ws # last'.ws)
        => unity_ws' = unity_ws]_vars

\* C2: the registry holds one handle or none, and every frame a command
\* request writes goes to the websocket registered last, never to one
\* registered before it.
C2_SendsGoToLastRegistered ==
    [][/\ unity_ws' \in Channels \cup {None}
       /\ Len(wire') > Len(wire) =>
            /\ Len(wire') = Len(wire) + 1
            /\ Len(regs) > 0
            /\ wire'[Len(wire')].ws = regs[Len(regs)]]_vars

\* C2 witness: two websockets registered, a frame went to the first before
\* the second registered and the request just started wrote to the second.
C2_Witness ==
    /\ regs = <<1, 2>>
    /\ Len(wire) = 2
    /\ wire[1].ws = 1
    /\ wire[2].ws = 2
    /\ last.act \in CommandCalls
    /\ last.ws = 2

\* C3: with no websocket registered, every toggle and every volume request
\* returns the "not connected" error, writes no frame and leaves the store
\* as it is.
C3_NoClientNoEffect ==
    [][(last'.act \in CommandCalls /\ unity_ws = None)
        => /\ last'.result = NotConnected
           /\ wire' = wire
           /\ device_states' = device_states]_vars

\* C3 witness: a volume request answered "not connected" after a websocket
\* had registered and disconnected again.
C3_Witness ==
    /\ last.act = "volume"
    /\ last.dev = radio
    /\ last.result = NotConnected
    /\ unity_ws = None
    /\ Len(regs) > 0

\* C9: a command request never ends in an exception: one that does not end
\* in one of its success responses (a failed send) returns the "not
\* connected" error and leaves the registry cleared.
C9_SendFailureRecovered ==
    [][(last'.act \in CommandSteps
            /\ last'.result.kind \notin {"none", "already", "sent", "volume"})
        => /\ last'.result = NotConnected
           /\ unity_ws' = None]_vars

\* the device and the value of a "<device>:status:<value>" frame
IsStatusFrame(text) == Len(Split(text)) = 3 /\ Split(text)[2] = status
FrameDevice(text) == Split(text)[1]
FrameValue(text) == Split(text)[3]

\* C4: while a websocket is registered, once toggle(device, s) has run to
\* completion and left s stored, the same toggle issued right after it
\* returns the "already" response, writes no frame and leaves the store.
C4_RepeatedToggleIsNoOp ==
    [][(/\ last.act = "toggled"
        /\ device_states[KeyOf(last.dev, status)] = last.state
        /\ last'.act = "toggle"
        /\ last'.dev = last.dev
        /\ last'.state = last.state
        /\ unity_ws # None)
        => /\ last'.result.kind = "already"
           /\ wire' = wire
           /\ device_states' = device_states]_vars

\* C5: with one websocket connected and no inbound frame, no two status
\* frames written one after the other for the same device carry the same
\* value, however the toggle requests interleave.
C5_NoDuplicateStatusTraffic ==
    (ninb = 0 /\ regs = <<1>> /\ chan[1] = "open") =>
        \A i, j \in 1..Len(wire) :
            (/\ i < j
             /\ IsStatusFrame(wire[i].text)
             /\ IsStatusFrame(wire[j].text)
             /\ FrameDevice(wire[i].text) = FrameDevice(wire[j].text)
             /\ \A k \in (i + 1)..(j - 1) :
                    ~(IsStatusFrame(wire[k].text)
                        /\ FrameDevice(wire[k].text) = FrameDevice(wire[i].text)))
            => FrameValue(wire[i].text) # FrameValue(wire[j].text)

\* C8: each of the four status keys, when set, holds "on" or "off".
C8_StatusKeysOnOrOff ==
    \A k \in StatusKeys : k \in DOMAIN device_states => device_states[k] \in {on, off}

LampOn == Join3(lamp, status, on)

\* C10: on the volatile backend with the store as it is at process start,
\* toggle lamp "on" returns "not connected" while no websocket is registered
\* and, once one is connected, writes "lamp:status:on" to it.
C10_EndToEndFromStart ==
    [][(/\ ~USE_REDIS
        /\ device_states = InitialStates
        /\ last'.act = "toggle"
        /\ last'.dev = lamp
        /\ last'.state = on)
        => IF unity_ws = None
           THEN last'.result = NotConnected
           ELSE chan[unity_ws] = "open"
                    => wire' = Append(wire, [ws |-> unity_ws, text |-> LampOn])]_vars

\* C10 as amended: on the volatile backend toggle lamp "on" returns "not
\* connected" while no websocket is registered; with one connected and the
\* stored lamp_status not "on" it writes "lamp:status:on" to that websocket,
\* then stores lamp_status = "on" and returns "Command sent" with that
\* frame; a lamp status query right after it returns true.
C10_EndToEndLampOn ==
    [][~USE_REDIS =>
        /\ (last'.act = "toggle" /\ last'.dev = lamp /\ last'.state = on /\ unity_ws = None)
            => (last'.result = NotConnected /\ wire' = wire)
        /\ (/\ last'.act = "toggle" /\ last'.dev = lamp /\ last'.state = on
            /\ unity_ws # None
            /\ chan[unity_ws] = "open"
            /\ device_states[KeyOf(lamp, status)] # on)
            => /\ wire' = Append(wire, [ws |-> unity_ws, text |-> LampOn])
               /\ device_states' = device_states
        /\ (last'.act = "toggled" /\ last'.dev = lamp /\ last'.state = on)
            => /\ device_states'[KeyOf(lamp, status)] = on
               /\ last'.result = CommandSent(LampOn)
        /\ (/\ last.act = "toggled" /\ last.dev = lamp /\ last.state = on
            /\ last'.act = "status" /\ last'.dev = lamp)
            => last'.result = StatusIs(TRUE)]_vars

\* C10 witness: the lamp was switched off by an inbound frame, the second
\* toggle request wrote "lamp:status:on" and the query after it said true.
C10_Witness ==
    /\ ~USE_REDIS
    /\ nreq = 2
    /\ ninb = 1
    /\ wire = <<[ws |-> 1, text |-> LampOn]>>
    /\ device_states[KeyOf(lamp, status)] = on
    /\ last.act = "status"
    /\ last.dev = lamp
    /\ last.result = StatusIs(TRUE)

\* C6: the values stored under tv_volume and radio_volume are integers in
\* decimal text between 0 and 100.
C6_VolumeInRange ==
    \A k \in VolumeKeys :
        k \in DOMAIN device_states =>
            /\ ParseInt(device_states[k]).ok
            /\ ParseInt(device_states[k]).val \in 0..100

\* the whole number next to h/2 on the side of zero
TowardZero(h) ==
    CHOOSE t \in {h \div 2, (h + 1) \div 2} :
        (IF t < 0 THEN 0 - 2 * t ELSE 2 * t) <= (IF h < 0 THEN 0 - h ELSE h)

\* C7: with a websocket connected a volume request writes exactly one frame
\* "<device>:volume:<change>", whatever the volume; when the send returns
\* it stores and returns the stored volume (or 50 for tv, 6 for radio, if
\* the stored text is no integer) plus the change truncated toward zero,
\* held within 0..100.
C7_AdjustVolumeResult ==
    [][/\ (last'.act = "volume" /\ unity_ws # None /\ chan[unity_ws] = "open")
            => /\ wire' = Append(wire, [ws |-> unity_ws,
                                        text |-> Join3(last'.dev, volume,
                                                       FloatToStr(last'.change))])
               /\ device_states' = device_states
       /\ last'.act = "volumed"
            => LET key == KeyOf(last'.dev, volume)
                   stored == IF key \in DOMAIN device_states
                             THEN device_states[key] ELSE off
                   current == IF ParseInt(stored).ok THEN ParseInt(stored).val
                              ELSE IF last'.dev = tv THEN 50 ELSE 6
                   sum == current + TowardZero(last'.change)
                   new == IF sum < 0 THEN 0 ELSE IF sum > 100 THEN 100 ELSE sum
               IN  /\ last'.result.kind = "volume"
                   /\ last'.result.new_volume = new
                   /\ last'.result.command
                        = Join3(last'.dev, volume, FloatToStr(last'.change))
                   /\ device_states'[key] = IntToStr(new)
                   /\ wire' = wire]_vars

\* C7 witness: an inbound "TV:Volume:95" set the tv volume to 95 and the
\* one request, for +1.5, returned and stored 96.
C7_Witness ==
    /\ ninb = 1
    /\ nreq = 1
    /\ last.act = "volumed"
    /\ last.dev = tv
    /\ last.change = 3
    /\ last.result.new_volume = 96
    /\ device_states[KeyOf(tv, volume)] = <<"9", "6">>

\* C7 witness, second case: on Redis with radio_volume never set, a request
\* for -50 started from the default 6 and returned and stored 0.
C7_WitnessDefault ==
    /\ USE_REDIS
    /\ ninb = 0
    /\ nreq = 1
    /\ last.act = "volumed"
    /\ last.dev = radio
    /\ last.change = 0 - 100
    /\ last.result.new_volume = 0
    /\ device_states[KeyOf(radio, volume)] = <<"0">>

Devices == {lamp, tv, radio, kitchenlight}

\* the places in the wire of the status frames for dev
StatusFramesOf(dev) ==
    {i \in 1..Len(wire) : IsStatusFrame(wire[i].text) /\ FrameDevice(wire[i].text) = dev}

\* the largest member of a non-empty set of numbers
Latest(S) == CHOOSE i \in S : \A j \in S : j <= i

\* a toggle request for dev is suspended in its send
ToggleInFlight(dev) ==
    \E r \in Requests :
        reqs[r].pc = "sending" /\ reqs[r].op = "toggle" /\ reqs[r].dev = dev

\* C11: with one websocket connected and no inbound frame, whenever no
\* toggle request for a device is in flight, the stored status of the
\* device is the value of the last status frame written for it (if one was
\* written), however the toggle requests interleave.
C11_StoredIsLastCommanded ==
    (ninb = 0 /\ regs = <<1>> /\ chan[1] = "open") =>
        \A dev \in Devices :
            (~ToggleInFlight(dev) /\ StatusFramesOf(dev) # {})
                => /\ KeyOf(dev, status) \in DOMAIN device_states
                   /\ device_states[KeyOf(dev, status)]
                        = FrameValue(wire[Latest(StatusFramesOf(dev))].text)

ReceiveFailures == {"disconnect", "recverror"}

\* C12: when the receive of the registered websocket fails (the peer closed,
\* or any other error), its receive loop ends and the registry is cleared;
\* the registry then stays empty, and every toggle and volume request
\* returns "not connected", until a websocket is accepted.
C12_DisconnectLifecycle ==
    [][/\ (last'.act \in ReceiveFailures /\ last'.ws = unity_ws)
            => (chan'[last'.ws] = "closed" /\ unity_ws' = None)
       /\ (unity_ws = None /\ last'.act # "accept") => unity_ws' = None
       /\ (unity_ws = None /\ last'.act \in CommandCalls)
            => last'.result = NotConnected]_vars

\* data splits on ":" into exactly three parts, none of them empty
WellFormed(data) ==
    /\ Len(Split(data)) = 3
    /\ \A i \in 1..3 : Split(data)[i] # <<>>

\* C13: an inbound text that does not split on ":" into exactly three
\* non-empty parts (two parts, four parts, three with an empty one) changes
\* nothing in the store, and the websocket stays connected and registered.
C13_MalformedInboundIgnored ==
    [][(last'.act = "receive" /\ ~WellFormed(last'.state))
        => /\ device_states' = device_states
           /\ chan'[last'.ws] = "open"
           /\ unity_ws' = unity_ws]_vars

\* C14: a volume query returns 50 for the tv and 6 for the radio when the
\* volume key was never set or holds text that is no integer; a status
\* query for a device whose status key was never set returns false.
C14_DefaultFallback ==
    [][/\ last'.act = "qvolume"
            => LET key == KeyOf(last'.dev, volume)
               IN  (key \notin DOMAIN device_states \/ ~ParseInt(device_states[key]).ok)
                        => last'.result = VolumeIs(IF last'.dev = tv THEN 50 ELSE 6)
       /\ (last'.act = "status" /\ KeyOf(last'.dev, status) \notin DOMAIN device_states)
            => last'.result = StatusIs(FALSE)]_vars

\* C14 witness: an inbound "tv:volume:dim" left tv_volume with text that is
\* no integer and the tv volume query after it returned 50.
C14_Witness ==
    /\ ninb = 1
    /\ KeyOf(tv, volume) \in DOMAIN device_states
    /\ device_states[KeyOf(tv, volume)] = dim
    /\ last.act = "qvolume"
    /\ last.dev = tv
    /\ last.result = VolumeIs(50)

\* C15: every status frame a toggle request writes is
\* "<device>:status:<value>" with the three tokens in lower case, whatever
\* the casing of the requested state, and the value in the frame is the
\* value the request stores when its send returns.
C15_OutboundLowercase ==
    [][/\ (last'.act = "toggle" /\ Len(wire') > Len(wire))
            => wire'[Len(wire')].text
                    = Join3(Lower(last'.dev), status, Lower(last'.state))
       /\ last'.act = "toggled"
            => device_states'[KeyOf(last'.dev, status)]
                    = FrameValue(last'.result.command)]_vars

\* C16: a failing read or write of the store never ends a toggle, volume or
\* query request, nor the receive loop, by its exception: the request
\* returns one of its responses, and after a received frame the websocket
\* is still connected and registered.
C16_StoreFailuresContained ==
    [][/\ last'.result.kind # "storeerror"
       /\ last'.act = "receive"
            => (chan'[last'.ws] = "open" /\ unity_ws' = unity_ws)]_vars

\* the integer held under a volume key, or the endpoint's default
VolumeHeld(dev) ==
    LET key == KeyOf(dev, volume)
        stored == IF key \in DOMAIN device_states THEN device_states[key] ELSE off
    IN  IF ParseInt(stored).ok THEN ParseInt(stored).val
        ELSE IF dev = tv THEN 50 ELSE 6

\* v + d held within 0..100
Clamped(v, d) ==
    IF v + d < 0 THEN 0 ELSE IF v + d > 100 THEN 100 ELSE v + d

\* C17: on the volatile backend no volume update is lost: a volume request
\* whose send returned applies its clamped change to the volume stored at
\* that moment, whatever other requests wrote while it was suspended, and
\* touches no other key; so requests finishing one after the other leave
\* the changes applied in the order in which their sends completed.
C17_VolumeUpdatesNotLost ==
    [][(~USE_REDIS /\ last'.act = "volumed")
        => LET new == Clamped(VolumeHeld(last'.dev), TowardZero(last'.change))
           IN  /\ device_states'[KeyOf(last'.dev, volume)] = IntToStr(new)
               /\ last'.result.new_volume = new
               /\ \A k \in DOMAIN device_states :
                    k # KeyOf(last'.dev, volume) => device_states'[k] = device_states[k]
               /\ (last.act = "volumed" /\ last.dev = last'.dev)
                    => new = Clamped(last.result.new_volume, TowardZero(last'.change))]_vars

\* C17 witness: two radio requests, +50 then -50, were both suspended in
\* their sends; the second finished first (6 - 50 held at 0), then the first
\* (0 + 50), leaving 50 and not the 56 of an update computed from 6.
C17_Witness ==
    /\ ~USE_REDIS
    /\ ninb = 0
    /\ nreq = 2
    /\ Len(wire) = 2
    /\ wire[1].text = Join3(radio, volume, FloatToStr(100))
    /\ wire[2].text = Join3(radio, volume, FloatToStr(0 - 100))
    /\ last.act = "volumed"
    /\ last.req = 1
    /\ last.result.new_volume = 50
    /\ device_states[KeyOf(radio, volume)] = <<"5", "0">>

\* C18: a toggle or volume request that got past the test for a registered
\* websocket and went on to send (the frame was written, or the send
\* raised) sent on the websocket registered at that moment, never on None,
\* however disconnects and registrations interleave; a request suspended
\* in its send holds a websocket.
C18_NoSendOnAbsentHandle ==
    [][/\ (last'.act \in CommandCalls /\ last'.result.kind \in {"none", "exception"})
            => (unity_ws # None /\ last'.ws = unity_ws /\ last'.ws \in Channels)
       /\ \A r \in Requests :
            reqs'[r].pc = "sending" => reqs'[r].ws \in Channels]_vars

\* C18 witness: a request sent on websocket 1 and is suspended in that
\* send while the disconnect of websocket 1 has emptied the registry.
C18_Witness ==
    /\ last.act = "disconnect"
    /\ unity_ws = None
    /\ \E r \in Requests : reqs[r].pc = "sending" /\ reqs[r].ws = 1

\* C19: registering a websocket neither stops nor closes the one registered
\* before it, and every three-part frame received afterwards on the earlier
\* one, as long as it has not disconnected, is applied to the store like a
\* frame of the registered one: key "<device>_<property>" in lower case,
\* value in lower case, no other key touched.
C19_SupersededKeepsWriting ==
    [][/\ last'.act = "accept"
            => \A c \in Channels \ {last'.ws} : chan'[c] = chan[c]
       /\ (last'.act = "receive" /\ WellFormed(last'.state))
            => LET parts == Split(last'.state)
                   key == Lower(parts[1]) \o <<"_">> \o Lower(parts[2])
               IN  /\ chan[last'.ws] = "open"
                   /\ DOMAIN device_states' = DOMAIN device_states \cup {key}
                   /\ device_states'[key] = Lower(parts[3])
                   /\ \A k \in DOMAIN device_states :
                        k # key => device_states'[k] = device_states[k]]_vars

\* C19 witness: websocket 2 registered over websocket 1, then the frame
\* "lamp:status:off" arrived on websocket 1 and switched the stored lamp,
\* "on" until then, to "off".
C19_Witness ==
    /\ ~USE_REDIS
    /\ regs = <<1, 2>>
    /\ unity_ws = 2
    /\ chan[1] = "open"
    /\ nreq = 0
    /\ last.act = "receive"
    /\ last.ws = 1
    /\ device_states[KeyOf(lamp, status)] = off

\* the step leaves every key of the store but key as it was
OnlyKeyMayChange(key) ==
    /\ DOMAIN device_states' \subseteq DOMAIN device_states \cup {key}
    /\ \A k \in DOMAIN device_states :
            k # key => (k \in DOMAIN device_states' /\ device_states'[k] = device_states[k])

\* C20: the status and volume queries write no frame and leave the store as
\* it is, also when the stored volume is no integer (the fallback is
\* returned, not stored); a toggle request changes at most
\* "<device>_status", a volume request at most "<device>_volume"; none of
\* them changes the registry.
C20_OperationFrames ==
    [][/\ last'.act \in {"status", "qvolume"}
            => (wire' = wire /\ device_states' = device_states /\ unity_ws' = unity_ws)
       /\ last'.act \in {"toggle", "toggled"}
            => (OnlyKeyMayChange(KeyOf(last'.dev, status)) /\ unity_ws' = unity_ws)
       /\ last'.act \in {"volume", "volumed"}
            => (OnlyKeyMayChange(KeyOf(last'.dev, volume)) /\ unity_ws' = unity_ws)
       /\ last'.act = "sendraised"
            => (device_states' = device_states /\ unity_ws' = unity_ws)]_vars

\* C20 witness: an inbound "radio:volume:1.5" left radio_volume with text
\* that is no integer; the radio volume query returned 6 and the key still
\* holds "1.5", with no frame written.
C20_Witness ==
    /\ ninb = 1
    /\ wire = <<>>
    /\ last.act = "qvolume"
    /\ last.dev = radio
    /\ last.result = VolumeIs(6)
    /\ KeyOf(radio, volume) \in DOMAIN device_states
    /\ device_states[KeyOf(radio, volume)] = FloatToStr(3)

====
